---- MODULE Spec2Model ----
(***************************************************************************)
(* vjoy-feeder: a feeder process that bridges a SpaceNavigator HID device  *)
(* to vJoy device 1 (src/src/main.rs).                                     *)
(*                                                                         *)
(* Two threads of control are modelled: the main thread (variable pc) and  *)
(* the ctrlc handler thread (variable hpc).  The vJoy driver and the HID   *)
(* transport are collaborators: each of their answers is drawn             *)
(* nondeterministically from the values their return types allow.          *)
(*                                                                         *)
(* Indices of read_buffer are 0-based, as in the source.                   *)
(***************************************************************************)
EXTENDS Integers, Sequences, FiniteSets, TLC

(***************************************************************************)
(* Bounds of the model.                                                    *)
(***************************************************************************)
MaxReads == 2        \* reports delivered by the device in one run
MaxInterrupts == 2   \* Ctrl-C deliveries in one run
MaxFeed == 3         \* reports fed to the translator in SpecFeed
MaxDevices == 3      \* entries of the HID enumeration in SpecLocator

(***************************************************************************)
(* Program constants.                                                      *)
(***************************************************************************)
I16_MAX == 32767
HALFMAXI16 == I16_MAX \div 2
VENDOR_ID == 1133
PRODUCT_ID == 50726
REPORT_TRANSLATION == 1
REPORT_ROTATION == 2
REPORT_BUTTONS == 3
vjoy_id == 1
BufferLen == 7
AxisFactor == 47

Byte == 0..255
I32Min == -2147483647 - 1
I32Max == 2147483647

(***************************************************************************)
(* Integer conversions.                                                    *)
(***************************************************************************)
\* reinterpretation of an unsigned 16-bit pattern as i16 (two's complement)
WrapI16(x) == ((x + 32768) % 65536) - 32768

\* i16::from_ne_bytes([b0, b1]); every target of the vJoy interface library
\* is little-endian, so the native order puts b0 in the low byte
I16FromNeBytesBE(b0, b1) == WrapI16(b0 * 256 + b1)
i16_from_ne_bytes(b0, b1) == WrapI16(b0 + 256 * b1)

\* `<i16> as i32 * 47 + HALFMAXI16`: the widening keeps the value, the
\* product and the sum are i32 operations
\* an i32 result: a value one step outside the range wraps around
WrapI32(x) ==
    IF x > I32Max THEN (x - I32Max - 1) + I32Min
    ELSE IF x < I32Min THEN (x - I32Min) + I32Max + 1
    ELSE x

ScaleNoWiden(v) == WrapI16(WrapI16(v * AxisFactor) + HALFMAXI16)
Scale(v) == WrapI32(WrapI32(v * AxisFactor) + HALFMAXI16)

(***************************************************************************)
(* JoystickPosition and the report translation (the match of the loop).    *)
(***************************************************************************)
JoystickInit ==
    [bDevice |-> vjoy_id, wThrottle |-> 0, wRudder |-> 0, wAileron |-> 0,
     wAxisX |-> 0, wAxisY |-> 0, wAxisZ |-> 0,
     wAxisXRot |-> 0, wAxisYRot |-> 0, wAxisZRot |-> 0,
     wSlider |-> 0, wDial |-> 0, wWheel |-> 0,
     wAxisVX |-> 0, wAxisVY |-> 0, wAxisVZ |-> 0,
     wAxisVBRX |-> 0, wAxisVBRY |-> 0, wAxisVBRZ |-> 0,
     lButtons |-> 0, bHats |-> 0, bHatsEx1 |-> 0, bHatsEx2 |-> 0,
     bHatsEx3 |-> 0, lButtonsEx1 |-> 0, lButtonsEx2 |-> 0, lButtonsEx3 |-> 0]

Fields == DOMAIN JoystickInit
TranslationAxes == {"wAxisX", "wAxisY", "wAxisZ"}
RotationAxes == {"wAxisXRot", "wAxisYRot", "wAxisZRot"}
Axes == TranslationAxes \cup RotationAxes

ZeroBuffer == [i \in 0..(BufferLen - 1) |-> 0]

Report(d, b1, b2, b3, b4, b5, b6) ==
    [i \in 0..(BufferLen - 1) |-> <<d, b1, b2, b3, b4, b5, b6>>[i + 1]]

TranslateRotation(wb, rb) ==
    [wb EXCEPT !.wAxisXRot = Scale(i16_from_ne_bytes(rb[1], rb[2])),
               !.wAxisYRot = Scale(i16_from_ne_bytes(rb[5], rb[6])),
               !.wAxisZRot = Scale(i16_from_ne_bytes(rb[3], rb[4]))]

TranslateTranslationInOrder(wb, rb) ==
    [wb EXCEPT !.wAxisX = Scale(i16_from_ne_bytes(rb[1], rb[2])),
               !.wAxisY = Scale(i16_from_ne_bytes(rb[3], rb[4])),
               !.wAxisZ = Scale(i16_from_ne_bytes(rb[5], rb[6]))]

TranslateTranslation(wb, rb) ==
    [wb EXCEPT !.wAxisX = Scale(i16_from_ne_bytes(rb[1], rb[2])),
               !.wAxisY = Scale(i16_from_ne_bytes(rb[5], rb[6])),
               !.wAxisZ = Scale(i16_from_ne_bytes(rb[3], rb[4]))]

TranslateButtonsAccumulates(wb, rb) ==
    [wb EXCEPT !.lButtons = wb.lButtons + rb[1]]
TranslateButtonsRebuilds(wb, rb) == [JoystickInit EXCEPT !.lButtons = rb[1]]
TranslateButtons(wb, rb) == [wb EXCEPT !.lButtons = rb[1]]

Translate(wb, rb) ==
    CASE rb[0] = REPORT_ROTATION -> TranslateRotation(wb, rb)
      [] rb[0] = REPORT_TRANSLATION -> TranslateTranslation(wb, rb)
      [] rb[0] = REPORT_BUTTONS -> TranslateButtons(wb, rb)
      [] OTHER -> wb

(***************************************************************************)
(* Collaborator value domains.                                             *)
(***************************************************************************)
VJDStat == {"VjdStatOwned", "VjdStatFree", "VjdStatBusy", "VjdStatMissing",
            "VjdStatUnknown"}

\* answers of get_vjd_button_number that the capability check distinguishes
ButtonCounts == 0..3

Capabilities ==
    [has_x : BOOLEAN, has_y : BOOLEAN, has_z : BOOLEAN,
     has_rx : BOOLEAN, has_ry : BOOLEAN, has_rz : BOOLEAN,
     buttons : ButtonCounts]

NoCapabilities ==
    [has_x |-> FALSE, has_y |-> FALSE, has_z |-> FALSE,
     has_rx |-> FALSE, has_ry |-> FALSE, has_rz |-> FALSE, buttons |-> 0]

\* (vendor id, product id) of an enumerated HID device
SpaceNavigator == <<VENDOR_ID, PRODUCT_ID>>

\* enumerations the HID transport answers with in a run of the process
Enumerations ==
    {<<>>, <<<<VENDOR_ID, PRODUCT_ID + 1>>>>,
     <<<<VENDOR_ID - 1, PRODUCT_ID>>, SpaceNavigator>>}

\* frames the device delivers to the control loop
Reports ==
    {Report(2, 0, 0, 16, 0, 32, 0),
     Report(3, 3, 0, 0, 0, 0, 0),
     Report(1, 255, 127, 0, 128, 93, 1),
     Report(4, 1, 0, 0, 0, 0, 0)}

(***************************************************************************)
(* State.                                                                  *)
(***************************************************************************)
VARIABLES
    pc,            \* position of the main thread
    hpc,           \* position of the ctrlc handler thread
    running,       \* the AtomicBool shared by main and the handler
    handler_set,   \* ctrlc::set_handler has installed the closure
    vjd_owned,     \* vJoy device 1 is owned by this process
    vjd_status,    \* last answer of get_vjd_status
    caps,          \* last answers of the capability queries
    device_list,   \* api.device_list()
    space_nav,     \* index of the opened HID device, 0 when none
    read_buffer,
    write_buffer,
    trace,         \* history: calls made, in execution order
    console,       \* history: lines printed
    reports_read,  \* history: frames returned by read
    pushed,        \* history: snapshots passed to update_vjd
    interrupts     \* history: number of Ctrl-C deliveries

vars == <<pc, hpc, running, handler_set, vjd_owned, vjd_status, caps,
          device_list, space_nav, read_buffer, write_buffer, trace, console,
          reports_read, pushed, interrupts>>

\* main: the statement that follows a step that returned Ok
OnOkStatusLast(at) ==
    CASE at = "check_vjoy_enabled" -> "check_vjoy_versions"
      [] at = "check_vjoy_versions" -> "check_vjoy_axis"
      [] at = "check_vjoy_axis" -> "check_vjoy_status"
      [] at = "check_vjoy_status" -> "hid_api_new"
      [] at = "hid_api_new" -> "find_space_navigator"
      [] at = "find_space_navigator" -> "set_blocking_mode"
      [] at = "set_blocking_mode" -> "set_handler"
      [] at = "set_handler" -> "acquire_vjoy_device"
      [] at = "acquire_vjoy_device" -> "while"

OnOk(at) ==
    CASE at = "check_vjoy_enabled" -> "check_vjoy_versions"
      [] at = "check_vjoy_versions" -> "check_vjoy_status"
      [] at = "check_vjoy_status" -> "check_vjoy_axis"
      [] at = "check_vjoy_axis" -> "hid_api_new"
      [] at = "hid_api_new" -> "find_space_navigator"
      [] at = "find_space_navigator" -> "set_blocking_mode"
      [] at = "set_blocking_mode" -> "set_handler"
      [] at = "set_handler" -> "acquire_vjoy_device"
      [] at = "acquire_vjoy_device" -> "while"

\* main: a step that returned Err is followed by pause() and return; the
\* expect on set_handler panics instead
OnErrFallThrough(at) == OnOk(at)
OnErrAcquireIgnored(at) ==
    IF at = "acquire_vjoy_device" THEN "while"
    ELSE IF at = "set_handler" THEN "panic" ELSE "pause"
OnErr(at) == IF at = "set_handler" THEN "panic" ELSE "pause"

Goto(at, ok) == IF ok THEN OnOk(at) ELSE OnErr(at)

\* while running.load(Ordering::Relaxed): the statement that follows the load
LoopTargetIgnoresFlag(flag) == "read"
LoopTargetInverted(flag) == IF flag THEN "exit" ELSE "read"
LoopTarget(flag) == IF flag THEN "read" ELSE "exit"

\* the value the handler stores into the flag
HandlerStoreToggles(current) == ~current
HandlerStoreKeepsRunning(current) == TRUE
HandlerStoreValue(current) == FALSE

Ev(op, ok, arg) == [op |-> op, ok |-> ok, arg |-> arg]

Terminated == pc \in {"exit", "panic"}

Init ==
    /\ pc = "check_vjoy_enabled"
    /\ hpc = "idle"
    /\ running = TRUE
    /\ handler_set = FALSE
    /\ vjd_owned = FALSE
    /\ vjd_status = "none"
    /\ caps = NoCapabilities
    /\ device_list = <<>>
    /\ space_nav = 0
    /\ read_buffer = ZeroBuffer
    /\ write_buffer = JoystickInit
    /\ trace = <<>>
    /\ console = <<>>
    /\ reports_read = <<>>
    /\ pushed = <<>>
    /\ interrupts = 0

(***************************************************************************)
(* The startup handshake.                                                  *)
(***************************************************************************)
CheckVjoyEnabled ==
    /\ pc = "check_vjoy_enabled"
    /\ \E status \in BOOLEAN :
        /\ trace' = Append(trace, Ev("check_vjoy_enabled", status, 0))
        /\ console' = console \o
              (IF status THEN <<"enabled = true", "Driver Info">>
                         ELSE <<"enabled = false">>)
        /\ pc' = Goto("check_vjoy_enabled", status)
    /\ UNCHANGED <<hpc, running, handler_set, vjd_owned, vjd_status, caps,
                   device_list, space_nav, read_buffer, write_buffer,
                   reports_read, pushed, interrupts>>

CheckVjoyVersions ==
    /\ pc = "check_vjoy_versions"
    /\ \E matching \in BOOLEAN :
        /\ trace' = Append(trace, Ev("check_vjoy_versions", matching, 0))
        /\ console' = console \o
              (IF matching THEN <<"match = true">>
                           ELSE <<"match = false", "Versions">>)
        /\ pc' = Goto("check_vjoy_versions", matching)
    /\ UNCHANGED <<hpc, running, handler_set, vjd_owned, vjd_status, caps,
                   device_list, space_nav, read_buffer, write_buffer,
                   reports_read, pushed, interrupts>>

StatusOkOnlyFree(status) == status = "VjdStatFree"
StatusOk(status) == status \in {"VjdStatOwned", "VjdStatFree"}

StatusMessage(status) ==
    CASE status = "VjdStatOwned" -> "already owned by this feeder"
      [] status = "VjdStatFree" -> "is free"
      [] status = "VjdStatBusy" -> "already owned by another feeder"
      [] status = "VjdStatMissing" -> "not installed or disabled"
      [] status = "VjdStatUnknown" -> "general error"

CheckVjoyStatus ==
    /\ pc = "check_vjoy_status"
    /\ \E status \in VJDStat :
        /\ vjd_status' = status
        /\ trace' = Append(trace, Ev("check_vjoy_status", StatusOk(status), vjoy_id))
        /\ console' = Append(console, StatusMessage(status))
        /\ pc' = Goto("check_vjoy_status", StatusOk(status))
    /\ UNCHANGED <<hpc, running, handler_set, vjd_owned, caps,
                   device_list, space_nav, read_buffer, write_buffer,
                   reports_read, pushed, interrupts>>

AxisOkAtLeastTwoButtons(c) ==
    c.has_x /\ c.has_y /\ c.has_z /\ c.has_rx /\ c.has_ry /\ c.has_rz
      /\ c.buttons >= 2

AxisOk(c) ==
    c.has_x /\ c.has_y /\ c.has_z /\ c.has_rx /\ c.has_ry /\ c.has_rz
      /\ c.buttons = 2

CheckVjoyAxis ==
    /\ pc = "check_vjoy_axis"
    /\ \E c \in Capabilities :
        /\ caps' = c
        /\ trace' = Append(trace, Ev("check_vjoy_axis", AxisOk(c), vjoy_id))
        /\ console' = console \o
              (IF AxisOk(c) THEN <<"capabilities">>
                            ELSE <<"capabilities", "do not match">>)
        /\ pc' = Goto("check_vjoy_axis", AxisOk(c))
    /\ UNCHANGED <<hpc, running, handler_set, vjd_owned, vjd_status,
                   device_list, space_nav, read_buffer, write_buffer,
                   reports_read, pushed, interrupts>>

(***************************************************************************)
(* Opening the physical device.                                            *)
(***************************************************************************)
HidApiNew ==
    /\ pc = "hid_api_new"
    /\ \E ok \in BOOLEAN, list \in Enumerations :
        /\ device_list' = IF ok THEN list ELSE device_list
        /\ trace' = Append(trace, Ev("HidApi::new", ok, 0))
        /\ console' = IF ok THEN console ELSE Append(console, "Error")
        /\ pc' = Goto("hid_api_new", ok)
    /\ UNCHANGED <<hpc, running, handler_set, vjd_owned, vjd_status, caps,
                   space_nav, read_buffer, write_buffer,
                   reports_read, pushed, interrupts>>

IsSpaceNavigatorByVendor(device_info) == device_info[1] = VENDOR_ID

IsSpaceNavigator(device_info) ==
    device_info[1] = VENDOR_ID /\ device_info[2] = PRODUCT_ID

Matches(list) == {i \in 1..Len(list) : IsSpaceNavigator(list[i])}

\* index of the entry at which the for loop stops, 0 when it runs to the end
FirstMatch(list) ==
    IF Matches(list) = {} THEN 0
    ELSE CHOOSE i \in Matches(list) : \A j \in Matches(list) : i <= j

FindSpaceNavigator ==
    /\ pc = "find_space_navigator"
    /\ LET m == FirstMatch(device_list) IN
        IF m = 0
        THEN /\ console' = Append(console, "Could not find SpaceNavigator")
             /\ pc' = Goto("find_space_navigator", FALSE)
             /\ UNCHANGED <<trace, space_nav>>
        ELSE \E opened \in BOOLEAN :
             /\ trace' = Append(trace, Ev("open_device", opened, m))
             /\ space_nav' = IF opened THEN m ELSE space_nav
             /\ console' = IF opened
                           THEN Append(console, "SpaceNavigator device found")
                           ELSE console
             /\ pc' = Goto("find_space_navigator", opened)
    /\ UNCHANGED <<hpc, running, handler_set, vjd_owned, vjd_status, caps,
                   device_list, read_buffer, write_buffer,
                   reports_read, pushed, interrupts>>

SetBlockingMode ==
    /\ pc = "set_blocking_mode"
    /\ \E ok \in BOOLEAN :
        /\ trace' = Append(trace, Ev("set_blocking_mode", ok, 0))
        /\ console' = Append(console, IF ok THEN "blocking mode = true" ELSE "Error")
        /\ pc' = Goto("set_blocking_mode", ok)
    /\ UNCHANGED <<hpc, running, handler_set, vjd_owned, vjd_status, caps,
                   device_list, space_nav, read_buffer, write_buffer,
                   reports_read, pushed, interrupts>>

(***************************************************************************)
(* The cancellation flag, the handler and the acquisition.                 *)
(***************************************************************************)
SetHandler ==
    /\ pc = "set_handler"
    /\ \E ok \in BOOLEAN :
        /\ handler_set' = ok
        /\ trace' = Append(trace, Ev("set_handler", ok, 0))
        /\ pc' = Goto("set_handler", ok)
    /\ UNCHANGED <<hpc, running, vjd_owned, vjd_status, caps, console,
                   device_list, space_nav, read_buffer, write_buffer,
                   reports_read, pushed, interrupts>>

AcquireVjoyDevice ==
    /\ pc = "acquire_vjoy_device"
    /\ \E status \in BOOLEAN :
        /\ vjd_owned' = IF status THEN TRUE ELSE vjd_owned
        /\ trace' = Append(trace, Ev("acquire_vjd", status, vjoy_id))
        /\ console' = console \o
              (IF status THEN <<"acquired = true", "Program status nominal">>
                         ELSE <<"acquired = false">>)
        /\ pc' = Goto("acquire_vjoy_device", status)
    /\ UNCHANGED <<hpc, running, handler_set, vjd_status, caps,
                   device_list, space_nav, read_buffer, write_buffer,
                   reports_read, pushed, interrupts>>

\* the handler closure, first statement: rusty_vjoy::relinquish_vjd(vjoy_id)
HandlerRelinquish ==
    /\ handler_set /\ ~Terminated
    /\ hpc = "idle"
    /\ interrupts < MaxInterrupts
    /\ interrupts' = interrupts + 1
    /\ vjd_owned' = FALSE
    /\ trace' = Append(trace, Ev("relinquish_vjd", vjd_owned, vjoy_id))
    /\ hpc' = "store"
    /\ UNCHANGED <<pc, running, handler_set, vjd_status, caps, console,
                   device_list, space_nav, read_buffer, write_buffer,
                   reports_read, pushed>>

\* the handler closure, second and third statement: the store and the prompt
HandlerStore ==
    /\ ~Terminated
    /\ hpc = "store"
    /\ running' = HandlerStoreValue(running)
    /\ trace' = Append(trace, Ev("store", HandlerStoreValue(running), 0))
    /\ console' = Append(console, "Press any buttons to exit...")
    /\ hpc' = "idle"
    /\ UNCHANGED <<pc, handler_set, vjd_owned, vjd_status, caps,
                   device_list, space_nav, read_buffer, write_buffer,
                   reports_read, pushed, interrupts>>

(***************************************************************************)
(* The control loop.                                                       *)
(***************************************************************************)
While ==
    /\ pc = "while"
    /\ trace' = Append(trace, Ev("load", running, 0))
    /\ pc' = LoopTarget(running)
    /\ UNCHANGED <<hpc, running, handler_set, vjd_owned, vjd_status, caps,
                   console, device_list, space_nav, read_buffer, write_buffer,
                   reports_read, pushed, interrupts>>

\* space_nav.read returns a frame: the device fills the whole buffer
ReadOk ==
    /\ pc = "read"
    /\ Len(reports_read) < MaxReads
    /\ \E r \in Reports :
        /\ read_buffer' = r
        /\ reports_read' = Append(reports_read, r)
    /\ trace' = Append(trace, Ev("read", TRUE, 0))
    /\ pc' = "match"
    /\ UNCHANGED <<hpc, running, handler_set, vjd_owned, vjd_status, caps,
                   console, device_list, space_nav, write_buffer,
                   pushed, interrupts>>

\* the statement that follows a read that returned Err: expect panics
AfterReadErrorRetries == "read"
AfterReadError == "panic"

\* space_nav.read returns an error: expect panics
ReadErr ==
    /\ pc = "read"
    /\ trace' = Append(trace, Ev("read", FALSE, 0))
    /\ console' = Append(console, "Read Error: ")
    /\ pc' = AfterReadError
    /\ UNCHANGED <<hpc, running, handler_set, vjd_owned, vjd_status, caps,
                   device_list, space_nav, read_buffer, write_buffer,
                   reports_read, pushed, interrupts>>

\* the match with a write_buffer that is rebuilt for every report
MatchFromInit ==
    /\ pc = "match"
    /\ write_buffer' = Translate(JoystickInit, read_buffer)
    /\ trace' = Append(trace, Ev("match", TRUE, read_buffer[0]))
    /\ pc' = "update_vjd"
    /\ UNCHANGED <<hpc, running, handler_set, vjd_owned, vjd_status, caps,
                   console, device_list, space_nav, read_buffer,
                   reports_read, pushed, interrupts>>

Match ==
    /\ pc = "match"
    /\ write_buffer' = Translate(write_buffer, read_buffer)
    /\ trace' = Append(trace, Ev("match", TRUE, read_buffer[0]))
    /\ pc' = "update_vjd"
    /\ UNCHANGED <<hpc, running, handler_set, vjd_owned, vjd_status, caps,
                   console, device_list, space_nav, read_buffer,
                   reports_read, pushed, interrupts>>

UpdateVjd ==
    /\ pc = "update_vjd"
    /\ pushed' = Append(pushed, write_buffer)
    /\ trace' = Append(trace, Ev("update_vjd", vjd_owned, vjoy_id))
    /\ pc' = "while"
    /\ UNCHANGED <<hpc, running, handler_set, vjd_owned, vjd_status, caps,
                   console, device_list, space_nav, read_buffer, write_buffer,
                   reports_read, interrupts>>

\* pause(): prompt, then wait for a byte on stdin; each unwrap can panic
Pause ==
    /\ pc = "pause"
    /\ \E ok \in BOOLEAN :
        /\ console' = Append(console, "Press enter to exit...")
        /\ pc' = IF ok THEN "exit" ELSE "panic"
    /\ UNCHANGED <<hpc, running, handler_set, vjd_owned, vjd_status, caps,
                   device_list, space_nav, read_buffer, write_buffer, trace,
                   reports_read, pushed, interrupts>>

Next ==
    \/ CheckVjoyEnabled
    \/ CheckVjoyVersions
    \/ CheckVjoyStatus
    \/ CheckVjoyAxis
    \/ HidApiNew
    \/ FindSpaceNavigator
    \/ SetBlockingMode
    \/ SetHandler
    \/ AcquireVjoyDevice
    \/ HandlerRelinquish
    \/ HandlerStore
    \/ While
    \/ ReadOk
    \/ ReadErr
    \/ Match
    \/ UpdateVjd
    \/ Pause

Spec == Init /\ [][Next]_vars

\* The run under a fair scheduler.  The steps of the control loop that do
\* not block (the load, the match, the push) are taken once the main thread
\* is at them; a pending read returns a frame as long as the device has one
\* to deliver.  Nothing forces a read error, an interrupt or a key press.
SpecLive ==
    /\ Init /\ [][Next]_vars
    /\ WF_vars(While) /\ WF_vars(ReadOk) /\ WF_vars(Match) /\ WF_vars(UpdateVjd)

(***************************************************************************)
(* The translator alone: the match of the loop applied to a sequence of    *)
(* frames, starting from the zero-initialised JoystickPosition.  pushed    *)
(* records the JoystickPosition after each frame.                          *)
(***************************************************************************)
FeedReports ==
    {Report(2, 0, 0, 16, 0, 32, 0),
     Report(1, 0, 1, 0, 0, 0, 0),
     Report(1, 0, 1, 255, 127, 0, 128),
     Report(1, 255, 127, 0, 128, 92, 1),
     Report(1, 1, 0, 2, 0, 3, 0),
     Report(2, 0, 1, 255, 127, 0, 128),
     Report(2, 164, 254, 255, 255, 93, 1),
     Report(2, 1, 0, 2, 0, 3, 0),
     Report(3, 0, 9, 9, 9, 9, 9),
     Report(3, 1, 0, 0, 0, 0, 0),
     Report(3, 2, 0, 0, 0, 0, 0),
     Report(3, 3, 0, 0, 0, 0, 0),
     Report(3, 255, 1, 2, 3, 4, 5),
     Report(0, 1, 2, 3, 4, 5, 6),
     Report(4, 1, 0, 0, 0, 0, 0),
     Report(255, 255, 255, 255, 255, 255, 255)}

InitFeed ==
    /\ pc = "feed"
    /\ hpc = "idle"
    /\ running = TRUE
    /\ handler_set = FALSE
    /\ vjd_owned = FALSE
    /\ vjd_status = "none"
    /\ caps = NoCapabilities
    /\ device_list = <<>>
    /\ space_nav = 0
    /\ read_buffer = ZeroBuffer
    /\ write_buffer = JoystickInit
    /\ trace = <<>>
    /\ console = <<>>
    /\ reports_read = <<>>
    /\ pushed = <<>>
    /\ interrupts = 0

Feed ==
    /\ pc = "feed"
    /\ Len(reports_read) < MaxFeed
    /\ \E r \in FeedReports :
        /\ read_buffer' = r
        /\ reports_read' = Append(reports_read, r)
        /\ write_buffer' = Translate(write_buffer, r)
        /\ pushed' = Append(pushed, Translate(write_buffer, r))
    /\ UNCHANGED <<pc, hpc, running, handler_set, vjd_owned, vjd_status, caps,
                   device_list, space_nav, trace, console, interrupts>>

NextFeed == Feed

SpecFeed == InitFeed /\ [][NextFeed]_vars

(***************************************************************************)
(* The scaling over the whole 16-bit domain: one motion frame that carries *)
(* the same two bytes in its three fields, applied to the zero-initialised *)
(* JoystickPosition.                                                       *)
(***************************************************************************)
MotionReports == {REPORT_TRANSLATION, REPORT_ROTATION}

InitScale ==
    /\ pc = "scale"
    /\ hpc = "idle"
    /\ running = TRUE
    /\ handler_set = FALSE
    /\ vjd_owned = FALSE
    /\ vjd_status = "none"
    /\ caps = NoCapabilities
    /\ device_list = <<>>
    /\ space_nav = 0
    /\ \E d \in MotionReports, lo \in Byte, hi \in Byte :
          read_buffer = Report(d, lo, hi, lo, hi, lo, hi)
    /\ write_buffer = JoystickInit
    /\ trace = <<>>
    /\ console = <<>>
    /\ reports_read = <<>>
    /\ pushed = <<>>
    /\ interrupts = 0

ScaleFrame ==
    /\ pc = "scale"
    /\ write_buffer' = Translate(write_buffer, read_buffer)
    /\ pc' = "scaled"
    /\ UNCHANGED <<hpc, running, handler_set, vjd_owned, vjd_status, caps,
                   device_list, space_nav, read_buffer, trace, console,
                   reports_read, pushed, interrupts>>

NextScale == ScaleFrame

SpecScale == InitScale /\ [][NextScale]_vars

(***************************************************************************)
(* The buttons arm over the whole byte domain: one buttons frame applied   *)
(* to the zero-initialised JoystickPosition and to JoystickPositions that  *)
(* earlier frames left with buttons and axes set; pushed holds the         *)
(* JoystickPosition the frame is applied to.                               *)
(***************************************************************************)
ButtonsStarts ==
    {JoystickInit,
     Translate(JoystickInit, Report(3, 3, 0, 0, 0, 0, 0)),
     Translate(Translate(JoystickInit, Report(1, 1, 0, 2, 0, 3, 0)),
               Report(3, 2, 0, 0, 0, 0, 0)),
     Translate(Translate(JoystickInit, Report(2, 1, 0, 2, 0, 3, 0)),
               Report(3, 255, 0, 0, 0, 0, 0))}

InitButtons ==
    /\ pc = "scale"
    /\ hpc = "idle"
    /\ running = TRUE
    /\ handler_set = FALSE
    /\ vjd_owned = FALSE
    /\ vjd_status = "none"
    /\ caps = NoCapabilities
    /\ device_list = <<>>
    /\ space_nav = 0
    /\ \E k \in Byte : read_buffer = Report(REPORT_BUTTONS, k, 0, 0, 0, 0, 0)
    /\ write_buffer \in ButtonsStarts
    /\ trace = <<>>
    /\ console = <<>>
    /\ reports_read = <<>>
    /\ pushed = <<write_buffer>>
    /\ interrupts = 0

NextButtons == ScaleFrame

SpecButtons == InitButtons /\ [][NextButtons]_vars

(***************************************************************************)
(* find_space_navigator alone, on every enumeration of up to MaxDevices    *)
(* entries: the SpaceNavigator, a device of the same vendor, a device with *)
(* the same product id, and an unrelated device.                           *)
(***************************************************************************)
DeviceInfos ==
    {SpaceNavigator, <<VENDOR_ID, PRODUCT_ID + 1>>,
     <<VENDOR_ID - 1, PRODUCT_ID>>, <<VENDOR_ID - 1, PRODUCT_ID + 1>>}

DeviceLists == UNION {[1..n -> DeviceInfos] : n \in 0..MaxDevices}

InitLocator ==
    /\ pc = "find_space_navigator"
    /\ hpc = "idle"
    /\ running = TRUE
    /\ handler_set = FALSE
    /\ vjd_owned = FALSE
    /\ vjd_status = "none"
    /\ caps = NoCapabilities
    /\ device_list \in DeviceLists
    /\ space_nav = 0
    /\ read_buffer = ZeroBuffer
    /\ write_buffer = JoystickInit
    /\ trace = <<>>
    /\ console = <<>>
    /\ reports_read = <<>>
    /\ pushed = <<>>
    /\ interrupts = 0

NextLocator == FindSpaceNavigator

SpecLocator == InitLocator /\ [][NextLocator]_vars

(***************************************************************************)
(* Properties.                                                             *)
(***************************************************************************)
HandshakeChecks == {"check_vjoy_enabled", "check_vjoy_versions",
                    "check_vjoy_status", "check_vjoy_axis"}

HandlerOps == {"relinquish_vjd", "store"}

SetupOps == <<"check_vjoy_enabled", "check_vjoy_versions", "check_vjoy_status",
              "check_vjoy_axis", "HidApi::new", "open_device",
              "set_blocking_mode", "set_handler">>

At(op) == {i \in 1..Len(trace) : trace[i].op = op}

\* the calls of the main thread, in execution order
MainTrace == SelectSeq(trace, LAMBDA e : e.op \notin HandlerOps)

\* C1 as stated: the capability check of device 1 never comes after the
\* status check, and the status check runs only after a successful
\* capability check.
C1_CapabilityBeforeStatus ==
    /\ \A i \in At("check_vjoy_axis") : \A j \in At("check_vjoy_status") : i < j
    /\ \A j \in At("check_vjoy_status") :
          \E i \in At("check_vjoy_axis") : i < j /\ trace[i].ok

\* C1 amended: the four checks run in the order driver-enabled,
\* version-compatibility, device-status, device-capability; each check runs
\* at most once, directly after the success of the one before it, so the
\* status check never comes after the capability check and the capability
\* check runs only once the status check has succeeded.
C1_HandshakeOrder ==
    /\ \A i \in At("check_vjoy_enabled") : i = 1
    /\ \A i \in At("check_vjoy_versions") :
          i = 2 /\ trace[1] = Ev("check_vjoy_enabled", TRUE, 0)
    /\ \A i \in At("check_vjoy_status") :
          i = 3 /\ trace[2] = Ev("check_vjoy_versions", TRUE, 0)
    /\ \A i \in At("check_vjoy_axis") :
          i = 4 /\ trace[3] = Ev("check_vjoy_status", TRUE, vjoy_id)

C1_Witness ==
    /\ Len(trace) >= 4
    /\ trace[3].op = "check_vjoy_status"
    /\ trace[4] = Ev("check_vjoy_axis", TRUE, vjoy_id)

\* C2: once a handshake check has failed, the run makes no further call: no
\* later check, no HID open and no acquire; in particular a failed
\* driver-enabled check is the only call of its run.
C2_ShortCircuit ==
    /\ \A i \in 1..Len(trace) :
          (trace[i].op \in HandshakeChecks /\ ~trace[i].ok) => i = Len(trace)
    /\ (trace # <<>> /\ trace[1] = Ev("check_vjoy_enabled", FALSE, 0))
          => Len(trace) = 1

C2_Witness ==
    /\ pc = "exit"
    /\ trace = <<Ev("check_vjoy_enabled", FALSE, 0)>>

\* the first calls of the main thread are the setup steps, all successful
SetupPassed(mt) ==
    /\ Len(mt) >= Len(SetupOps)
    /\ \A k \in 1..Len(SetupOps) : mt[k].op = SetupOps[k] /\ mt[k].ok

\* the while statement has been reached: its load of the flag has executed
LoopStarted == At("load") # {}

\* C3: acquire is called only after every earlier setup step has returned
\* success, in order; a run that ends has either passed every setup step,
\* acquired the device and reached the control loop, or does not own the
\* device and has acquired nothing.
C3_NoPartialSuccess ==
    LET mt == MainTrace IN
    /\ \A i \in 1..Len(mt) :
          mt[i].op = "acquire_vjd" =>
              i = Len(SetupOps) + 1 /\ SetupPassed(mt)
    /\ LoopStarted =>
          /\ SetupPassed(mt)
          /\ mt[Len(SetupOps) + 1] = Ev("acquire_vjd", TRUE, vjoy_id)
    /\ Terminated => (LoopStarted \/ ~vjd_owned)
    /\ (Terminated /\ ~LoopStarted) =>
          \A i \in At("acquire_vjd") : ~trace[i].ok

\* a run that was interrupted before acquire, failed to acquire and ended
C3_Witness ==
    /\ pc = "exit"
    /\ ~vjd_owned
    /\ At("relinquish_vjd") # {}
    /\ \E i \in At("acquire_vjd") : ~trace[i].ok

\* C4: every axis value of every snapshot passed to update_vjd lies in the
\* driver's axis range, the non-negative range symmetric around the bias
\* (0 .. 2*16383), whatever 16-bit fields the frames read so far carried,
\* and also while axes are still at their initial zero.
C4_AxesInRange ==
    \A k \in 1..Len(pushed) : \A a \in Axes :
        pushed[k][a] >= 0 /\ pushed[k][a] <= 2 * HALFMAXI16

\* what the frame format says, written without the operators of the model:
\* the signed value of a little-endian 16-bit field, and its scaled value
SignedLE(lo, hi) ==
    IF lo + 256 * hi >= 32768 THEN lo + 256 * hi - 65536 ELSE lo + 256 * hi

Scaled(lo, hi) == SignedLE(lo, hi) * 47 + 16383

Scenario ==
    <<Report(2, 0, 0, 16, 0, 32, 0), Report(1, 0, 1, 0, 0, 0, 0),
      Report(3, 3, 0, 0, 0, 0, 0)>>

\* C5 as stated: after the three frames of the scenario axisZRot = 16383,
\* axisXRot = 16383, axisYRot = 0x2000*47+16383, axisX = 256*47+16383 and
\* buttons = 3.
C5_ScenarioAsStated ==
    reports_read = Scenario =>
        /\ write_buffer.wAxisZRot = 16383
        /\ write_buffer.wAxisXRot = 16383
        /\ write_buffer.wAxisYRot = 8192 * 47 + 16383
        /\ write_buffer.wAxisX = 256 * 47 + 16383
        /\ write_buffer.lButtons = 3

\* C5 amended: after the three frames of the scenario axisXRot = 16383,
\* axisYRot = 0x20*47+16383 = 17887, axisZRot = 0x10*47+16383 = 17135,
\* axisX = 256*47+16383 = 28415, axisY = axisZ = 16383 and buttons = 3.
C5_Scenario ==
    reports_read = Scenario =>
        /\ write_buffer.wAxisXRot = 16383
        /\ write_buffer.wAxisYRot = 17887
        /\ write_buffer.wAxisZRot = 17135
        /\ write_buffer.wAxisX = 28415
        /\ write_buffer.wAxisY = 16383
        /\ write_buffer.wAxisZ = 16383
        /\ write_buffer.lButtons = 3

C5_Witness == reports_read = Scenario /\ pushed[3] = write_buffer

\* the JoystickPosition before the k-th frame was applied
Before(k) == IF k = 1 THEN JoystickInit ELSE pushed[k - 1]

ChangedBy(k) == {f \in Fields : Before(k)[f] # pushed[k][f]}

\* C6: a frame with discriminant 1 changes at most wAxisX/Y/Z, one with
\* discriminant 2 at most wAxisXRot/YRot/ZRot, one with discriminant 3 at
\* most lButtons, any other frame changes nothing; bDevice and the
\* auxiliary fields keep their initial values after any sequence of frames.
C6_DispatchPurity ==
    /\ \A k \in 1..Len(pushed) :
          LET d == reports_read[k][0] IN
          /\ d = 1 => ChangedBy(k) \subseteq TranslationAxes
          /\ d = 2 => ChangedBy(k) \subseteq RotationAxes
          /\ d = 3 => ChangedBy(k) \subseteq {"lButtons"}
          /\ d \notin {1, 2, 3} => ChangedBy(k) = {}
    /\ \A f \in Fields \ (Axes \cup {"lButtons"}) :
          write_buffer[f] = JoystickInit[f]

\* every kind of frame applied to a JoystickPosition whose axes and buttons
\* are all set
C6_Witness ==
    /\ Len(pushed) = 3
    /\ reports_read[1][0] = 2 /\ reports_read[2][0] = 1
    /\ reports_read[3] = Report(3, 255, 1, 2, 3, 4, 5)
    /\ ChangedBy(3) = {"lButtons"}
    /\ \A a \in Axes : pushed[3][a] # 0

\* C7: a translation frame sets wAxisX from bytes (1,2), wAxisY from bytes
\* (5,6) and wAxisZ from bytes (3,4), each a little-endian signed 16-bit
\* field, scaled; a rotation frame sets wAxisXRot, wAxisYRot, wAxisZRot from
\* the same offsets.
C7_AxisOrdering ==
    \A k \in 1..Len(pushed) :
        LET r == reports_read[k] IN
        /\ r[0] = 1 =>
              /\ pushed[k].wAxisX = Scaled(r[1], r[2])
              /\ pushed[k].wAxisY = Scaled(r[5], r[6])
              /\ pushed[k].wAxisZ = Scaled(r[3], r[4])
        /\ r[0] = 2 =>
              /\ pushed[k].wAxisXRot = Scaled(r[1], r[2])
              /\ pushed[k].wAxisYRot = Scaled(r[5], r[6])
              /\ pushed[k].wAxisZRot = Scaled(r[3], r[4])

\* frames with three different fields, among them the extreme values
C7_Witness ==
    /\ Len(pushed) = 2
    /\ reports_read[1] = Report(1, 0, 1, 255, 127, 0, 128)
    /\ reports_read[2] = Report(2, 164, 254, 255, 255, 93, 1)
    /\ pushed[2].wAxisY = -32768 * 47 + 16383
    /\ pushed[2].wAxisZ = 32767 * 47 + 16383
    /\ pushed[2].wAxisYRot = 349 * 47 + 16383
    /\ pushed[2].wAxisZRot = -1 * 47 + 16383

\* C8: for every signed 16-bit field value v the axis value written is
\* exactly v*47 + 16383, and neither the product nor the sum leaves the
\* signed 32-bit range.
C8_Scaling ==
    pc = "scaled" =>
        LET v == SignedLE(read_buffer[1], read_buffer[2])
            written == IF read_buffer[0] = 1
                       THEN {write_buffer[a] : a \in TranslationAxes}
                       ELSE {write_buffer[a] : a \in RotationAxes}
        IN  /\ v >= -32768 /\ v <= 32767
            /\ written = {v * 47 + 16383}
            /\ v * 47 >= I32Min /\ v * 47 <= I32Max
            /\ v * 47 + 16383 >= I32Min /\ v * 47 + 16383 <= I32Max

C8_Witness ==
    /\ pc = "scaled"
    /\ read_buffer = Report(1, 0, 128, 0, 128, 0, 128)
    /\ write_buffer.wAxisX = -1523713

LoadsAfter(i) == {j \in At("load") : j > i}

\* C9: the flag is true until the handler stores, every store of the run
\* stores false, the flag is false from the first store on, and every load
\* of the control loop that follows a store returns false.
C9_CancellationTerminal ==
    /\ At("store") = {} => running
    /\ At("store") # {} => ~running
    /\ \A i \in At("store") :
          /\ ~trace[i].ok
          /\ \A j \in LoadsAfter(i) : ~trace[j].ok

\* two interrupts handled, then a load by the loop
C9_Witness ==
    \E i \in At("store") : \E j \in At("store") :
        i < j /\ LoadsAfter(j) # {}

LoopOps == {"load", "read", "match", "update_vjd"}

\* the calls of the control loop, in execution order
LoopTrace == SelectSeq(trace, LAMBDA e : e.op \in LoopOps)

IterationOrder == <<"load", "read", "match", "update_vjd">>

\* C10: the control loop repeats load, read, translation, push in this
\* order, each once per iteration; a read starts only after a load that
\* returned true, and after a load that returned false the loop does
\* nothing more.
C10_IterationOrder ==
    LET lt == LoopTrace IN
    \A i \in 1..Len(lt) :
        /\ lt[i].op = IterationOrder[((i - 1) % 4) + 1]
        /\ lt[i].op = "read" => lt[i - 1].ok
        /\ lt[i].op = "match" => lt[i - 1].ok
        /\ (lt[i].op = "load" /\ ~lt[i].ok) => i = Len(lt)

\* two complete iterations, then the load that ends the loop
C10_Witness ==
    LET lt == LoopTrace IN
    /\ pc = "exit"
    /\ Len(lt) = 9
    /\ lt[9] = Ev("load", FALSE, 0)

InLoop == pc \in {"while", "read", "match", "update_vjd"}

\* the step appends the return of a read to the trace
ReadReturns ==
    /\ Len(trace') = Len(trace) + 1
    /\ trace'[Len(trace')].op = "read"

\* C11: a control loop that is blocked in a read leaves the read only by the
\* return of that read, whatever the flag holds (without a further frame or
\* error it stays blocked); and once the flag is false, a loop whose reads
\* return leaves the loop and the process ends.
C11_ExitWaitsForRead ==
    /\ [][(pc = "read" /\ pc' # "read") => ReadReturns]_vars
    /\ (~running /\ InLoop /\ Len(reports_read) < MaxReads) ~> Terminated

\* the flag is false and the loop is blocked in a read that no frame ends
C11_Witness ==
    /\ ~running
    /\ pc = "read"
    /\ Len(reports_read) = MaxReads

\* C12: a read that returned an error is the last call of the run: the
\* process has ended by the panic, no read is retried, nothing is translated
\* and nothing is pushed after it.
C12_ReadFailureFatal ==
    \A i \in At("read") :
        ~trace[i].ok =>
            /\ i = Len(trace)
            /\ pc = "panic"
            /\ Len(pushed) = Len(reports_read)

\* a read fails in the second iteration, after one frame was pushed
C12_Witness ==
    /\ pc = "panic"
    /\ Len(pushed) = 1
    /\ trace[Len(trace)] = Ev("read", FALSE, 0)

\* the line the status check prints for each status that makes it fail
FailedStatusLine ==
    [VjdStatBusy |-> "already owned by another feeder",
     VjdStatMissing |-> "not installed or disabled",
     VjdStatUnknown |-> "general error"]

\* C13: the status check succeeds exactly when the status is free or owned
\* by this process; on owned-by-another, not-installed and unknown it fails,
\* the run makes no further call (so never acquires), and the console shows
\* the line of that status and of no other failing status.
C13_StatusCheck ==
    \A i \in At("check_vjoy_status") :
        /\ trace[i].ok <=> vjd_status \in {"VjdStatFree", "VjdStatOwned"}
        /\ vjd_status \in DOMAIN FailedStatusLine =>
              /\ ~trace[i].ok
              /\ i = Len(trace)
              /\ At("acquire_vjd") = {}
              /\ pc \in {"pause", "exit", "panic"}
              /\ \A s \in DOMAIN FailedStatusLine :
                    (\E n \in 1..Len(console) : console[n] = FailedStatusLine[s])
                        <=> s = vjd_status

C13_Witness ==
    /\ pc = "exit"
    /\ vjd_status = "VjdStatMissing"
    /\ trace[Len(trace)] = Ev("check_vjoy_status", FALSE, vjoy_id)

\* C14: the capability check succeeds exactly when the six axes X, Y, Z, RX,
\* RY, RZ are all present and the button count is 2; with any other answer
\* (a missing axis, fewer or more than 2 buttons) it fails and the run makes
\* no further call, so it never acquires.
C14_CapabilityCheck ==
    \A i \in At("check_vjoy_axis") :
        LET all_six == caps.has_x /\ caps.has_y /\ caps.has_z
                         /\ caps.has_rx /\ caps.has_ry /\ caps.has_rz
        IN  /\ trace[i].ok <=> (all_six /\ caps.buttons = 2)
            /\ ~trace[i].ok =>
                  /\ i = Len(trace)
                  /\ At("acquire_vjd") = {}
                  /\ pc \in {"pause", "exit", "panic"}

\* all six axes present, three buttons: the check fails and the run ends
C14_Witness ==
    /\ pc = "exit"
    /\ caps = [has_x |-> TRUE, has_y |-> TRUE, has_z |-> TRUE,
               has_rx |-> TRUE, has_ry |-> TRUE, has_rz |-> TRUE,
               buttons |-> 3]
    /\ trace[Len(trace)] = Ev("check_vjoy_axis", FALSE, vjoy_id)

\* the entries of the enumeration that carry the ids of the SpaceNavigator
SpaceNavigatorEntries ==
    {i \in 1..Len(device_list) : device_list[i] = <<1133, 50726>>}

NotFoundPrinted ==
    \E n \in 1..Len(console) : console[n] = "Could not find SpaceNavigator"

\* C15: on any enumeration find_space_navigator tries to open exactly the
\* first entry whose ids are (1133, 50726) and no other entry; it returns a
\* handle only for that entry, and it ends with the not-found outcome
\* exactly when no entry has these ids.
C15_DeviceLocator ==
    pc # "find_space_navigator" =>
        /\ \A i \in At("open_device") :
              /\ trace[i].arg \in SpaceNavigatorEntries
              /\ \A j \in SpaceNavigatorEntries : trace[i].arg <= j
        /\ Cardinality(At("open_device")) =
              (IF SpaceNavigatorEntries = {} THEN 0 ELSE 1)
        /\ space_nav # 0 =>
              /\ pc = "set_blocking_mode"
              /\ trace = <<Ev("open_device", TRUE, space_nav)>>
        /\ pc = "set_blocking_mode" => space_nav # 0
        /\ NotFoundPrinted <=> SpaceNavigatorEntries = {}
        /\ NotFoundPrinted => pc = "pause"

\* two near misses before the SpaceNavigator: the third entry is opened
C15_Witness ==
    /\ device_list = <<<<1133, 50727>>, <<1132, 50726>>, <<1133, 50726>>>>
    /\ space_nav = 3
    /\ pc = "set_blocking_mode"

\* C16: a frame with discriminant 3 and byte 1 = k, for every k in 0..255,
\* leaves lButtons = k, a non-negative integer, whatever lButtons held
\* before (the value is replaced, not combined with the old one).
C16_Buttons ==
    pc = "scaled" =>
        /\ read_buffer[0] = 3
        /\ write_buffer.lButtons = read_buffer[1]
        /\ write_buffer.lButtons >= 0 /\ write_buffer.lButtons <= 255
        /\ \A f \in Fields \ {"lButtons"} : write_buffer[f] = pushed[1][f]

\* both buttons were down, the frame reports only the right one
C16_Witness ==
    /\ pc = "scaled"
    /\ pushed[1].lButtons = 3
    /\ read_buffer[1] = 2
    /\ write_buffer.lButtons = 2

\* C17 as stated: no update_vjd is issued after a relinquish_vjd of the
\* handler.
C17_NoPushAfterRelease ==
    \A u \in At("update_vjd") : \A r \in At("relinquish_vjd") : u < r

\* the load of the flag that began the iteration of the call at index u
IterationLoad(u) ==
    CHOOSE l \in At("load") : l < u /\ \A m \in At("load") : m < u => m <= l

\* C17 amended: an update_vjd is issued after the handler has requested
\* release only by an iteration of the loop that loaded the flag before the
\* handler's store of false; no iteration that begins after the store pushes.
C17_PushAfterReleaseOnlyInFlight ==
    \A u \in At("update_vjd") : \A s \in At("store") :
        s < u => IterationLoad(u) < s

\* release and store arrive while the loop is blocked in read; the frame
\* that ends the read is pushed afterwards
C17_Witness ==
    \E r \in At("relinquish_vjd") : \E s \in At("store") :
        \E u \in At("update_vjd") :
            r < s /\ s < u /\ IterationLoad(u) < r /\ ~trace[u].ok

\* C18: every relinquish_vjd of the handler is requested while this process
\* owns the device, and a process that ends after an interrupt no longer
\* owns the device: every successful acquire is followed by a release.
C18_ReleaseMatchesAcquire ==
    /\ \A r \in At("relinquish_vjd") : trace[r].ok
    /\ (Terminated /\ interrupts > 0) =>
          /\ ~vjd_owned
          /\ \A a \in At("acquire_vjd") :
                trace[a].ok => \E r \in At("relinquish_vjd") : a < r

After(op, i) == {j \in At(op) : j > i}

\* C19: after a store of false by the handler the control loop completes at
\* most one more read and issues at most one more update_vjd, and then exits.
C19_AtMostOneMoreIteration ==
    \A s \in At("store") :
        /\ Cardinality(After("read", s)) <= 1
        /\ Cardinality(After("update_vjd", s)) <= 1
        /\ Cardinality(After("load", s)) <= 1
        /\ \A l \in After("load", s) : l = Len(trace) /\ pc = "exit"

\* the store arrives during the first read of two: one read returns and one
\* push is issued after it, then the loop exits
C19_Witness ==
    /\ pc = "exit"
    /\ Len(reports_read) = 1
    /\ \E s \in At("store") :
          /\ Cardinality(After("read", s)) = 1
          /\ Cardinality(After("update_vjd", s)) = 1

RECURSIVE Applied(_, _)
\* JoystickInit with the first k reports of rs applied in arrival order
Applied(rs, k) ==
    IF k = 0 THEN JoystickInit ELSE Translate(Applied(rs, k - 1), rs[k])

KindReported(rs, k, d) == \E j \in 1..k : rs[j][0] = d

IterationInFlight == pc \in {"match", "update_vjd"}

\* C20: one push per successful read (an iteration between its read and its
\* push has exactly one push pending, a failed read has none), also for
\* unrecognized discriminants; the k-th pushed snapshot is JoystickInit with
\* the first k reports applied in arrival order, carries device id 1, and
\* has 0 on every axis whose kind of report has not arrived yet.
C20_PushPerRead ==
    LET rs == reports_read
        successful == Cardinality({i \in At("read") : trace[i].ok})
    IN  /\ successful = Len(rs)
        /\ Cardinality(At("update_vjd")) = Len(pushed)
        /\ Len(pushed) = IF IterationInFlight THEN Len(rs) - 1 ELSE Len(rs)
        /\ \A k \in 1..Len(pushed) :
              /\ pushed[k] = Applied(rs, k)
              /\ pushed[k].bDevice = vjoy_id
              /\ ~KindReported(rs, k, REPORT_TRANSLATION) =>
                    \A a \in TranslationAxes : pushed[k][a] = 0
              /\ ~KindReported(rs, k, REPORT_ROTATION) =>
                    \A a \in RotationAxes : pushed[k][a] = 0
              /\ ~KindReported(rs, k, REPORT_BUTTONS) => pushed[k].lButtons = 0

\* a rotation report, then a report with an unrecognized discriminant: two
\* pushes, the second equal to the first, translation axes still 0
C20_Witness ==
    /\ Len(pushed) = 2
    /\ reports_read[1][0] = REPORT_ROTATION
    /\ ~reports_read[2][0] \in {REPORT_TRANSLATION, REPORT_ROTATION, REPORT_BUTTONS}
    /\ pushed[2] = pushed[1]
    /\ pushed[1] # JoystickInit
    /\ \A a \in TranslationAxes : pushed[2][a] = 0

====
